---- MODULE Spec2Model ----
(***************************************************************************)
(* A model of the validator library (release 2.1.0): a Validator session   *)
(* over a source object, the Validation chains it registers per key, the   *)
(* VoidValidation that replaces a chain after a stop-on-fail failure or an *)
(* optional() substitution, and the session's queries.                     *)
(*                                                                         *)
(* JavaScript values are records with one shape, so that any two of them   *)
(* can be compared; strings are sequences of one-character strings, so     *)
(* that their length, trimming and parsing are computed, not assumed.      *)
(***************************************************************************)
EXTENDS Integers, Sequences, FiniteSets, TLC

VARIABLES obj, validations, heap, cur, expr, req

vars == <<obj, validations, heap, cur, expr, req>>

---------------------------------------------------------------------------
(* Bounds of the model *)

\* Validation objects one session creates (calls of validate/validateAll)
MaxChains == 2
\* method calls made on chain objects in one session
MaxCalls == 3
\* Validation objects one session of SpecKeys creates
MaxKeyChains == 3

---------------------------------------------------------------------------
(* JavaScript values *)

Undefined == [t |-> "undefined", s |-> <<>>, n |-> 0, b |-> FALSE]
Null == [t |-> "null", s |-> <<>>, n |-> 0, b |-> FALSE]
NaN == [t |-> "NaN", s |-> <<>>, n |-> 0, b |-> FALSE]
Bool(x) == [t |-> "boolean", s |-> <<>>, n |-> 0, b |-> x]
Num(x) == [t |-> "number", s |-> <<>>, n |-> x, b |-> FALSE]
Str(x) == [t |-> "string", s |-> x, n |-> 0, b |-> FALSE]

\* a number that is not an integer: i.f, with i >= 0 and f its fraction
\* digits, not all of them "0"
Float(i, f) == [t |-> "float", s |-> f, n |-> i, b |-> FALSE]

\* a function object; s holds its name
Fn(x) == [t |-> "function", s |-> x, n |-> 0, b |-> FALSE]

\* typeof v
TypeOf(v) ==
  CASE v.t = "NaN" -> "number"
    [] v.t = "float" -> "number"
    [] v.t = "null" -> "object"
    [] OTHER -> v.t

\* !v  (the falsy values: undefined, null, false, 0, NaN, "")
Falsy(v) ==
  \/ v.t \in {"undefined", "null", "NaN"}
  \/ v.t = "boolean" /\ ~v.b
  \/ v.t = "number" /\ v.n = 0
  \/ v.t = "string" /\ v.s = <<>>

Digits == <<"0", "1", "2", "3", "4", "5", "6", "7", "8", "9">>

IsDigit(c) == \E i \in 1..10 : Digits[i] = c

DigitVal(c) == (CHOOSE i \in 1..10 : Digits[i] = c) - 1

IsSpace(c) == c = " "

AllDigits(s) == \A i \in 1..Len(s) : IsDigit(s[i])

RECURSIVE DigitsToNat(_)
DigitsToNat(s) ==
  IF s = <<>> THEN 0
  ELSE 10 * DigitsToNat(SubSeq(s, 1, Len(s) - 1)) + DigitVal(s[Len(s)])

RECURSIVE NatToDigits(_)
NatToDigits(k) ==
  IF k < 10 THEN <<Digits[k + 1]>>
  ELSE Append(NatToDigits(k \div 10), Digits[(k % 10) + 1])

RECURSIVE TrimLeft(_)
TrimLeft(s) ==
  IF s # <<>> /\ IsSpace(s[1]) THEN TrimLeft(Tail(s)) ELSE s

RECURSIVE TrimRight(_)
TrimRight(s) ==
  IF s # <<>> /\ IsSpace(s[Len(s)]) THEN TrimRight(SubSeq(s, 1, Len(s) - 1)) ELSE s

\* String.prototype.trim
Trim(s) == TrimRight(TrimLeft(s))

RECURSIVE DigitPrefix(_)
DigitPrefix(s) ==
  IF s # <<>> /\ IsDigit(s[1]) THEN <<s[1]>> \o DigitPrefix(Tail(s)) ELSE <<>>

\* String(v)
ToStringJS(v) ==
  CASE v.t = "string" -> v.s
    [] v.t = "number" ->
         IF v.n < 0 THEN <<"-">> \o NatToDigits(0 - v.n) ELSE NatToDigits(v.n)
    [] v.t = "float" -> NatToDigits(v.n) \o <<".">> \o v.s
    [] v.t = "NaN" -> <<"N", "a", "N">>
    [] v.t = "undefined" -> <<"u", "n", "d", "e", "f", "i", "n", "e", "d">>
    [] v.t = "null" -> <<"n", "u", "l", "l">>
    [] OTHER -> IF v.b THEN <<"t", "r", "u", "e">> ELSE <<"f", "a", "l", "s", "e">>

\* parseInt(v, 10): leading white space and one sign are skipped, the longest
\* prefix of digits is read, and NaN results when there is none
ParseInt(v) ==
  LET str == TrimLeft(ToStringJS(v))
      neg == str # <<>> /\ str[1] = "-"
      body == IF str # <<>> /\ str[1] \in {"-", "+"} THEN Tail(str) ELSE str
      ds == DigitPrefix(body)
  IN IF ds = <<>> THEN NaN
     ELSE Num(IF neg THEN 0 - DigitsToNat(ds) ELSE DigitsToNat(ds))

\* ToNumber(v), as the relational operators apply it; the strings of the model
\* hold decimal integer literals or no number at all
ToNumber(v) ==
  CASE v.t = "undefined" -> NaN
    [] v.t = "null" -> Num(0)
    [] v.t = "boolean" -> Num(IF v.b THEN 1 ELSE 0)
    [] v.t = "string" ->
         LET str == Trim(v.s)
             neg == str # <<>> /\ str[1] = "-"
             body == IF str # <<>> /\ str[1] \in {"-", "+"} THEN Tail(str) ELSE str
         IN IF str = <<>> THEN Num(0)
            ELSE IF body # <<>> /\ AllDigits(body)
                 THEN Num(IF neg THEN 0 - DigitsToNat(body) ELSE DigitsToNat(body))
                 ELSE NaN
    [] OTHER -> v

\* strings.isInt of ringo/utils/strings: /^(?:[-+]?(?:0|[1-9][0-9]*))$/
StringsIsInt(s) ==
  LET body == IF s # <<>> /\ s[1] \in {"-", "+"} THEN Tail(s) ELSE s
  IN /\ body # <<>>
     /\ AllDigits(body)
     /\ (body = <<"0">> \/ body[1] # "0")

\* strings.isFloat of ringo/utils/strings, for the strings of the model: a
\* decimal literal with digits on both sides of the point is accepted; the
\* empty string, an integer literal and a string with any other character
\* are not
StringsIsFloat(s) ==
  LET body == IF s # <<>> /\ s[1] \in {"-", "+"} THEN Tail(s) ELSE s
  IN \E i \in 2..(Len(body) - 1) :
       /\ body[i] = "."
       /\ AllDigits(SubSeq(body, 1, i - 1))
       /\ AllDigits(SubSeq(body, i + 1, Len(body)))

RECURSIVE StripZeros(_)
StripZeros(s) ==
  IF s # <<>> /\ s[Len(s)] = "0" THEN StripZeros(SubSeq(s, 1, Len(s) - 1)) ELSE s

\* parseFloat(v), for values that are not negative: leading white space and
\* a "+" are skipped, the longest prefix of digits, and of a point and
\* digits after it, is read, and NaN results when there is no digit
ParseFloat(v) ==
  LET str == TrimLeft(ToStringJS(v))
      body == IF str # <<>> /\ str[1] = "+" THEN Tail(str) ELSE str
      ds == DigitPrefix(body)
      rest == SubSeq(body, Len(ds) + 1, Len(body))
      fs == IF rest # <<>> /\ rest[1] = "." THEN DigitPrefix(Tail(rest)) ELSE <<>>
  IN IF ds = <<>> /\ fs = <<>> THEN NaN
     ELSE IF StripZeros(fs) = <<>> THEN Num(DigitsToNat(ds))
     ELSE Float(DigitsToNat(ds), StripZeros(fs))

---------------------------------------------------------------------------
(* Inputs of the model *)

\* the keys the caller validates
Names == {"age", "foo"}

\* the keys validated in the sessions of SpecKeys
KeyNames == Names \cup {"hasOwnProperty"}

\* the failure message the caller passes to the i-th method call of a session:
\* "m1", "m2", ... (a different message at every call)
MessageOf(i) == <<"m">> \o NatToDigits(i)

\* the message passed to the next call
Msgs == {MessageOf(expr.calls + 1)}

\* a source object with the own keys "age" and "foo"
Source(age, foo) == [k \in {"age", "foo"} |-> IF k = "age" THEN age ELSE foo]

\* the source objects: {age: "15", foo: " 19 "}, {age: "19", foo: ""},
\* {age: 0, foo: null}, {age: false, foo: NaN}, {age: undefined} and {}
Sources ==
  { Source(Str(<<"1", "5">>), Str(<<" ", "1", "9", " ">>)),
    Source(Str(<<"1", "9">>), Str(<<>>)),
    Source(Num(0), Null),
    Source(Bool(FALSE), NaN),
    [k \in {"age"} |-> Undefined],
    [k \in {} |-> Undefined] }

\* the trim argument of validate/validateAll: omitted, false, true or 1
TrimArgs == {Undefined, Bool(FALSE), Bool(TRUE), Num(1)}

\* the defaultValue argument of optional(): omitted or 4
Defaults == {Undefined, Num(4)}

\* the strict argument of optional(): omitted or true
StrictArgs == {Undefined, Bool(TRUE)}

\* the right operand passed to isGreaterThan
Rights == {Num(17)}

\* the length passed to hasLength
Lengths == {Num(2)}

\* function(val) { return -1; }
MinusOne == Fn(<<"minusOne">>)

\* function(value) { return value !== "abcd"; }
NotAbcd == Fn(<<"notAbcd">>)

\* function(value) { throw new Error("boom"); }
Thrower == Fn(<<"thrower">>)

\* whether func(value) throws instead of returning
Throws(func) == func = Thrower

\* the exceptions: the Error passes and toValue throw themselves, and the
\* one thrown by a function of the caller
ArgumentError == "Validator function argument is not a function!"
CallerError == "boom"

\* func(value), for the functions the caller passes to passes and toValue
\* that return
Call(func, value) ==
  CASE func = MinusOne -> Num(0 - 1)
    [] func = NotAbcd -> Bool(value # Str(<<"a", "b", "c", "d">>))

\* what is not callable: nothing, "abc" and 12345
NonCallables == {Undefined, Str(<<"a", "b", "c">>), Num(12345)}

\* the converter argument of toValue
Converters == {MinusOne, Thrower} \cup NonCallables

\* the func argument of passes
Funcs == {NotAbcd, MinusOne, Thrower} \cup NonCallables

---------------------------------------------------------------------------
(* Objects *)

\* new Validation(key, value, stopOnFail)
Validation(key, value, stopOnFail) ==
  [key |-> key, value |-> value, stopOnFail |-> (stopOnFail = TRUE),
   isValid |-> TRUE, messages |-> <<>>]

\* a reference to the Validation object heap[i]
Ref(i) == [kind |-> "Validation", id |-> i, value |-> Undefined]

\* new VoidValidation(value): the object holds nothing but its value
VoidValidation(value) == [kind |-> "VoidValidation", id |-> 0, value |-> value]

\* no expression has been started
NoRef == [kind |-> "none", id |-> 0, value |-> Undefined]

\* this.value of the object the expression holds
CurValue == IF cur.kind = "Validation" THEN heap[cur.id].value ELSE cur.value

\* what a query of the session returns: a boolean, a message array, a value,
\* or a TypeError raised to the caller
RetBool(x) == [err |-> FALSE, b |-> x, msgs |-> <<>>, value |-> Undefined]
RetMsgs(x) == [err |-> FALSE, b |-> FALSE, msgs |-> x, value |-> Undefined]
RetValue(x) == [err |-> FALSE, b |-> FALSE, msgs |-> <<>>, value |-> x]
TypeError == [err |-> TRUE, b |-> FALSE, msgs |-> <<>>, value |-> Undefined]

\* The record of the expression in progress (history, read by no operation
\* of the program): the Validation it started from, whether every call so far
\* was made on the object the previous call returned, the calls made, the
\* methods called in it, the messages of the predicates whose condition was
\* false for the value of the object they were called on, the last call, and
\* the chain's state and the default when optional() substituted.
NoExpr ==
  [root |-> 0, chained |-> FALSE, calls |-> 0, ops |-> <<>>, fails |-> <<>>,
   last |-> "none", error |-> "none",
   arg |-> Undefined, invoked |-> FALSE,
   opt |-> FALSE, msgsAtOpt |-> <<>>, validAtOpt |-> FALSE, default |-> Undefined]

\* the names every object inherits from Object.prototype, as far as the
\* callers of the model use them
ObjectPrototypeKeys == {"hasOwnProperty"}

\* o.hasOwnProperty(key)
HasOwnProperty(o, key) == key \in DOMAIN o

\* o[key]: the own property, or else the method inherited from
\* Object.prototype, or else undefined
Get(o, key) ==
  IF key \in DOMAIN o THEN o[key]
  ELSE IF key \in ObjectPrototypeKeys THEN Fn(<<key>>)
  ELSE Undefined

---------------------------------------------------------------------------
(* The session: Validator *)

\* The request the session was built for by the middleware, with the
\* progress of its handling (history, read by no operation of the program):
\* how many sessions were built for it and how often next(req) was called.
\* NoRequest stands for a session the caller built with new Validator(obj).
NoRequest ==
  [method |-> "none", postParams |-> [k \in {} |-> Undefined],
   queryParams |-> [k \in {} |-> Undefined],
   phase |-> "none", n |-> 0, sessions |-> 0, nexts |-> 0]

Init ==
  /\ obj \in Sources
  /\ validations = [k \in {} |-> 0]
  /\ heap = <<>>
  /\ cur = NoRef
  /\ expr = NoExpr
  /\ req = NoRequest

\* addValidation keeping the Validation a key already has: the new object is
\* returned to the caller but not registered
addValidationKeepsFirst(key, stopOnFail, trim) ==
  LET raw == IF HasOwnProperty(obj, key) THEN Get(obj, key) ELSE Undefined
      value == IF TypeOf(raw) = "string" /\ trim = TRUE THEN Str(Trim(raw.s)) ELSE raw
      id == Len(heap) + 1
  IN /\ heap' = Append(heap, Validation(key, value, stopOnFail))
     /\ validations' =
          [k \in DOMAIN validations \cup {key} |->
             IF k \in DOMAIN validations THEN validations[k] ELSE id]
     /\ cur' = Ref(id)
     /\ expr' = [expr EXCEPT !.root = id, !.chained = TRUE, !.ops = <<>>,
                             !.fails = <<>>, !.opt = FALSE, !.msgsAtOpt = <<>>,
                             !.validAtOpt = FALSE, !.default = Undefined,
                             !.last = IF stopOnFail THEN "validate" ELSE "validateAll"]
     /\ UNCHANGED <<obj, req>>

\* addValidation trimming every string, whatever trim is
addValidationAlwaysTrims(key, stopOnFail, trim) ==
  LET raw == IF HasOwnProperty(obj, key) THEN Get(obj, key) ELSE Undefined
      value == IF TypeOf(raw) = "string" THEN Str(Trim(raw.s)) ELSE raw
      id == Len(heap) + 1
  IN /\ heap' = Append(heap, Validation(key, value, stopOnFail))
     /\ validations' =
          [k \in DOMAIN validations \cup {key} |-> IF k = key THEN id ELSE validations[k]]
     /\ cur' = Ref(id)
     /\ expr' = [NoExpr EXCEPT !.root = id, !.chained = TRUE, !.calls = expr.calls,
                               !.last = IF stopOnFail THEN "validate" ELSE "validateAll"]
     /\ UNCHANGED <<obj, req>>

\* addValidation as it was in release 1: this.obj[key], own or inherited
addValidationReadsInherited(key, stopOnFail, trim) ==
  LET raw == Get(obj, key)
      value == IF TypeOf(raw) = "string" /\ trim = TRUE THEN Str(Trim(raw.s)) ELSE raw
      id == Len(heap) + 1
  IN /\ heap' = Append(heap, Validation(key, value, stopOnFail))
     /\ validations' =
          [k \in DOMAIN validations \cup {key} |-> IF k = key THEN id ELSE validations[k]]
     /\ cur' = Ref(id)
     /\ expr' = [NoExpr EXCEPT !.root = id, !.chained = TRUE, !.calls = expr.calls,
                               !.last = IF stopOnFail THEN "validate" ELSE "validateAll"]
     /\ UNCHANGED <<obj, req>>

\* this.addValidation(key, stopOnFail, trim)
\* addValidation storing the trimmed string back into the object to validate
addValidationTrimsSource(key, stopOnFail, trim) ==
  LET raw == IF HasOwnProperty(obj, key) THEN Get(obj, key) ELSE Undefined
      value == IF TypeOf(raw) = "string" /\ trim = TRUE THEN Str(Trim(raw.s)) ELSE raw
      id == Len(heap) + 1
  IN /\ heap' = Append(heap, Validation(key, value, stopOnFail))
     /\ validations' =
          [k \in DOMAIN validations \cup {key} |-> IF k = key THEN id ELSE validations[k]]
     /\ cur' = Ref(id)
     /\ expr' = [NoExpr EXCEPT !.root = id, !.chained = TRUE, !.calls = expr.calls,
                               !.last = IF stopOnFail THEN "validate" ELSE "validateAll"]
     /\ obj' = IF HasOwnProperty(obj, key) THEN [obj EXCEPT ![key] = value] ELSE obj
     /\ UNCHANGED req

addValidation(key, stopOnFail, trim) ==
  LET raw == IF HasOwnProperty(obj, key) THEN Get(obj, key) ELSE Undefined
      value == IF TypeOf(raw) = "string" /\ trim = TRUE THEN Str(Trim(raw.s)) ELSE raw
      id == Len(heap) + 1
  IN /\ heap' = Append(heap, Validation(key, value, stopOnFail))
     /\ validations' =
          [k \in DOMAIN validations \cup {key} |-> IF k = key THEN id ELSE validations[k]]
     /\ cur' = Ref(id)
     /\ expr' = [NoExpr EXCEPT !.root = id, !.chained = TRUE, !.calls = expr.calls,
                               !.last = IF stopOnFail THEN "validate" ELSE "validateAll"]
     /\ UNCHANGED <<obj, req>>

\* Validator.prototype.validate(key, trim)
Validate ==
  /\ Len(heap) < MaxChains
  /\ \E key \in Names, trim \in TrimArgs : addValidation(key, TRUE, trim = Bool(TRUE))

\* Validator.prototype.validateAll(key, trim)
ValidateAll ==
  /\ Len(heap) < MaxChains
  /\ \E key \in Names, trim \in TrimArgs : addValidation(key, FALSE, trim = Bool(TRUE))

\* Validator.prototype.hasFailures(name), name given; once the name
\* "hasOwnProperty" is registered, this.validations.hasOwnProperty is a
\* Validation and calling it raises a TypeError
HasFailures(name) ==
  IF "hasOwnProperty" \in DOMAIN validations
  THEN TypeError
  ELSE RetBool(~(name \in DOMAIN validations) \/ ~heap[validations[name]].isValid)

\* hasFailures() with some() in the place of every()
HasFailuresAnySome ==
  RetBool(TRUE # (\E key \in DOMAIN validations : heap[validations[key]].isValid))

\* Validator.prototype.hasFailures(), no name
HasFailuresAny ==
  RetBool(TRUE # (\A key \in DOMAIN validations : heap[validations[key]].isValid))

\* Validator.prototype.getMessages(key), key given: validations[key] is
\* undefined for a key that was never validated, and reading its messages
\* raises a TypeError
GetMessages(key) ==
  IF HasFailures(key).err
  THEN TypeError
  ELSE IF HasFailures(key).b
  THEN IF key \in DOMAIN validations
       THEN RetMsgs(heap[validations[key]].messages)
       ELSE TypeError
  ELSE RetMsgs(<<>>)

\* The keys of this.validations after the first n calls of addValidation, in
\* the order in which for-in, Object.keys and Iterator enumerate them: a
\* property is added after the others when it is first assigned and stays
\* where it is when it is assigned again
RECURSIVE KeysAfter(_)
KeysAfter(n) ==
  IF n = 0 THEN <<>>
  ELSE LET keys == KeysAfter(n - 1)
       IN IF \E i \in 1..Len(keys) : keys[i] = heap[n].key
          THEN keys
          ELSE Append(keys, heap[n].key)

\* the keys of this.validations in enumeration order
ValidationKeys == KeysAfter(Len(heap))

\* getMessages() leaving out the fields that are valid
GetMessagesAllOnlyFailed ==
  LET keep(key) == ~heap[validations[key]].isValid
      keys == SelectSeq(ValidationKeys, keep)
  IN [i \in 1..Len(keys) |-> <<keys[i], heap[validations[keys[i]]].messages>>]

\* Validator.prototype.getMessages(), no key: the properties of the object
\* it returns, in their order, as pairs of a key and a message array
GetMessagesAll ==
  [i \in 1..Len(ValidationKeys) |->
     <<ValidationKeys[i], heap[validations[ValidationKeys[i]]].messages>>]

\* getValues() leaving out the fields that are not valid
GetValuesOnlyValid ==
  LET keep(key) == heap[validations[key]].isValid
      keys == SelectSeq(ValidationKeys, keep)
  IN [i \in 1..Len(keys) |-> <<keys[i], heap[validations[keys[i]]].value>>]

\* Validator.prototype.getValues(): the properties of the object it returns,
\* in their order, as pairs of a key and validation.getValue()
GetValues ==
  [i \in 1..Len(ValidationKeys) |->
     <<ValidationKeys[i], heap[validations[ValidationKeys[i]]].value>>]

\* Validator.prototype.getValue(key), key given: validations[key] is
\* undefined for a key that was never validated, and calling its getValue
\* raises a TypeError
GetValue(key) ==
  IF key \in DOMAIN validations
  THEN RetValue(heap[validations[key]].value)
  ELSE TypeError

\* hasUnvalidatedProperties with its pre-check of the lengths alone
HasUnvalidatedPropertiesByLength ==
  RetBool(Cardinality(DOMAIN validations) < Cardinality(DOMAIN obj))

\* Validator.prototype.hasUnvalidatedProperties()
HasUnvalidatedProperties ==
  LET validationKeys == DOMAIN validations
      objectKeys == DOMAIN obj
  IN IF Cardinality(validationKeys) < Cardinality(objectKeys)
     THEN RetBool(TRUE)
     ELSE RetBool(\E key \in objectKeys : key \notin validationKeys)

---------------------------------------------------------------------------
(* The chain: Validation and VoidValidation *)

\* checkResult without the stopOnFail test: the failed object is returned
checkResultNeverStops(validationObj, passes, message) ==
  IF ~passes
  THEN [obj |-> [validationObj EXCEPT !.isValid = FALSE,
                                      !.messages = Append(@, message)],
        void |-> FALSE]
  ELSE [obj |-> validationObj, void |-> FALSE]

\* checkResult returning a VoidValidation after every failure
checkResultAlwaysStops(validationObj, passes, message) ==
  IF ~passes
  THEN [obj |-> [validationObj EXCEPT !.isValid = FALSE,
                                      !.messages = Append(@, message)],
        void |-> TRUE]
  ELSE [obj |-> validationObj, void |-> FALSE]

\* checkResult recording the message outside the test of passes
checkResultAlwaysRecords(validationObj, passes, message) ==
  LET recorded == [validationObj EXCEPT !.messages = Append(@, message)]
  IN IF ~passes
     THEN [obj |-> [recorded EXCEPT !.isValid = FALSE],
           void |-> validationObj.stopOnFail = TRUE]
     ELSE [obj |-> recorded, void |-> FALSE]

\* checkResult returning the VoidValidation before the message is pushed
checkResultStopsBeforePush(validationObj, passes, message) ==
  IF ~passes
  THEN IF validationObj.stopOnFail = TRUE
       THEN [obj |-> [validationObj EXCEPT !.isValid = FALSE], void |-> TRUE]
       ELSE [obj |-> [validationObj EXCEPT !.isValid = FALSE,
                                           !.messages = Append(@, message)],
             void |-> FALSE]
  ELSE [obj |-> validationObj, void |-> FALSE]

\* checkResult assigning isValid at every call: validationObj.isValid = passes
checkResultAssignsIsValid(validationObj, passes, message) ==
  IF ~passes
  THEN LET failed == [validationObj EXCEPT !.isValid = FALSE,
                                           !.messages = Append(@, message)]
       IN [obj |-> failed, void |-> validationObj.stopOnFail = TRUE]
  ELSE [obj |-> [validationObj EXCEPT !.isValid = TRUE], void |-> FALSE]

\* checkResult(validationObj, passes, message): the object after the call
\* and whether a new VoidValidation is returned instead of validationObj
checkResult(validationObj, passes, message) ==
  IF ~passes
  THEN LET failed == [validationObj EXCEPT !.isValid = FALSE,
                                           !.messages = Append(@, message)]
       IN IF validationObj.stopOnFail = TRUE
          THEN [obj |-> failed, void |-> TRUE]
          ELSE [obj |-> failed, void |-> FALSE]
  ELSE [obj |-> validationObj, void |-> FALSE]

\* toInt computing the integer without storing it in this.value
toIntKeepsValue(validationObj) == validationObj

\* Validation.prototype.toInt(radix), radix omitted: the object after the call
toInt(validationObj) ==
  LET value == IF TypeOf(validationObj.value) = "string"
                    /\ ~StringsIsInt(validationObj.value.s)
               THEN NaN ELSE validationObj.value
  IN [validationObj EXCEPT !.value = ParseInt(value)]

\* voidCheck: returns this
voidCheck(voidObj) == voidObj

\* VoidValidation.prototype as it was before release 2.0.0: the methods whose
\* name starts with "to" are those of Validation.prototype
VoidMethodKeepsSanitizers(fn, voidObj) ==
  IF fn = "toInt" THEN toInt(voidObj) ELSE voidCheck(voidObj)

\* VoidValidation.prototype[fn] called on voidObj, for every fn but getValue:
\* the object the call returns
VoidMethod(fn, voidObj) == voidCheck(voidObj)

\* VoidValidation.prototype[fn] taking the passes and toValue of
\* Validation.prototype: the argument is checked and called with the value
VoidMethodCallsFunction(fn, voidObj, func) ==
  IF TypeOf(func) # "function"
  THEN [obj |-> voidObj, threw |-> TRUE, error |-> ArgumentError,
        invoked |-> FALSE]
  ELSE IF Throws(func)
  THEN [obj |-> voidObj, threw |-> TRUE, error |-> CallerError,
        invoked |-> TRUE]
  ELSE [obj |-> IF fn = "toValue"
                THEN [voidObj EXCEPT !.value = Call(func, @)] ELSE voidObj,
        threw |-> FALSE, error |-> "none", invoked |-> TRUE]

\* VoidValidation.prototype[fn] called on voidObj with the function func as
\* its first argument, for passes and toValue: voidCheck takes no parameter
\* and reads no argument, so func is neither checked nor called. The object
\* the call returns, whether an exception reaches the caller and which, and
\* whether func was invoked
VoidMethodCall(fn, voidObj, func) ==
  [obj |-> VoidMethod(fn, voidObj), threw |-> FALSE, error |-> "none",
   invoked |-> FALSE]

\* A predicate method that records its result in the Validation registered
\* for its key, as it would if a Validation looked itself up in the session
CheckRegistered(method, passes, message) ==
  /\ cur.kind # "none"
  /\ expr.calls < MaxCalls
  /\ IF cur.kind = "Validation"
     THEN LET id == validations[heap[cur.id].key]
              r == checkResult(heap[id], passes, message)
          IN /\ heap' = [heap EXCEPT ![id] = r.obj]
             /\ cur' = IF r.void THEN VoidValidation(r.obj.value) ELSE cur
     ELSE /\ cur' = VoidMethod(method, cur)
          /\ UNCHANGED heap
  /\ expr' = [expr EXCEPT !.calls = @ + 1,
                          !.ops = Append(@, method),
                          !.fails = IF passes THEN @ ELSE Append(@, message),
                          !.last = "predicate"]
  /\ UNCHANGED <<obj, validations, req>>

\* A predicate method whose failure state is shared by all the Validation
\* objects of the session, as it would be if isValid and messages were kept
\* on the prototype
CheckSharedState(method, passes, message) ==
  /\ cur.kind # "none"
  /\ expr.calls < MaxCalls
  /\ IF cur.kind = "Validation"
     THEN LET r == checkResult(heap[cur.id], passes, message)
          IN /\ heap' = [i \in 1..Len(heap) |->
                           IF i = cur.id THEN r.obj
                           ELSE [heap[i] EXCEPT !.isValid = r.obj.isValid,
                                                !.messages = r.obj.messages]]
             /\ cur' = IF r.void THEN VoidValidation(r.obj.value) ELSE cur
     ELSE /\ cur' = VoidMethod(method, cur)
          /\ UNCHANGED heap
  /\ expr' = [expr EXCEPT !.calls = @ + 1,
                          !.ops = Append(@, method),
                          !.fails = IF passes THEN @ ELSE Append(@, message),
                          !.last = "predicate"]
  /\ UNCHANGED <<obj, validations, req>>

\* A predicate method called on the object the expression holds: on a
\* Validation it returns checkResult(this, passes, message); on a
\* VoidValidation it is voidCheck, which returns this.
Check(method, passes, message) ==
  /\ cur.kind # "none"
  /\ expr.calls < MaxCalls
  /\ IF cur.kind = "Validation"
     THEN LET r == checkResult(heap[cur.id], passes, message)
          IN /\ heap' = [heap EXCEPT ![cur.id] = r.obj]
             /\ cur' = IF r.void THEN VoidValidation(r.obj.value) ELSE cur
     ELSE /\ cur' = VoidMethod(method, cur)
          /\ UNCHANGED heap
  /\ expr' = [expr EXCEPT !.calls = @ + 1,
                          !.ops = Append(@, method),
                          !.fails = IF passes THEN @ ELSE Append(@, message),
                          !.last = "predicate"]
  /\ UNCHANGED <<obj, validations, req>>

\* Number.isSafeInteger(v)
IsSafeInteger(v) == v.t = "number"

\* the condition of Validation.prototype.isInt
isIntPasses(v) == (TypeOf(v) = "string" /\ StringsIsInt(v.s)) \/ IsSafeInteger(v)

\* the condition of Validation.prototype.isGreaterThan: this.value > right
isGreaterThanPasses(v, right) ==
  LET l == ToNumber(v)
      r == ToNumber(right)
  IN l.t = "number" /\ r.t = "number" /\ l.n > r.n

\* the condition of Validation.prototype.hasLength
hasLengthPasses(v, length) ==
  TypeOf(v) = "string" /\ Num(Len(v.s)) = length

IsInt == \E message \in Msgs : Check("isInt", isIntPasses(CurValue), message)

IsGreaterThan ==
  \E right \in Rights, message \in Msgs :
    Check("isGreaterThan", isGreaterThanPasses(CurValue, right), message)

HasLength ==
  \E length \in Lengths, message \in Msgs :
    Check("hasLength", hasLengthPasses(CurValue, length), message)

\* optional as it was before release 2.0.0: the default replaces only a null
\* or undefined value, and a falsy value that is neither is left alone
optionalNullOnly(validationObj, defaultValue, strict) ==
  IF validationObj.value \in {Undefined, Null}
  THEN [obj |-> [validationObj EXCEPT !.value = defaultValue], void |-> TRUE]
  ELSE [obj |-> validationObj, void |-> FALSE]

\* optional handing the default to the VoidValidation only, without storing
\* it in the Validation
optionalKeepsValue(validationObj, defaultValue, strict) ==
  IF \/ strict = Bool(TRUE) /\ validationObj.value = Undefined
     \/ strict # Bool(TRUE) /\ Falsy(validationObj.value)
  THEN [obj |-> validationObj, void |-> TRUE]
  ELSE [obj |-> validationObj, void |-> FALSE]

\* optional as it was before release 2.0.0 when no default is given: the empty
\* string stands in for the missing default
optionalEmptyString(validationObj, defaultValue, strict) ==
  IF \/ strict = Bool(TRUE) /\ validationObj.value = Undefined
     \/ strict # Bool(TRUE) /\ Falsy(validationObj.value)
  THEN [obj |-> [validationObj EXCEPT
                   !.value = IF defaultValue = Undefined THEN Str(<<>>) ELSE defaultValue],
        void |-> TRUE]
  ELSE [obj |-> validationObj, void |-> FALSE]

\* optional storing the default and returning this, so that the calls that
\* follow are made on the Validation
optionalStaysActive(validationObj, defaultValue, strict) ==
  IF \/ strict = Bool(TRUE) /\ validationObj.value = Undefined
     \/ strict # Bool(TRUE) /\ Falsy(validationObj.value)
  THEN [obj |-> [validationObj EXCEPT !.value = defaultValue], void |-> FALSE]
  ELSE [obj |-> validationObj, void |-> FALSE]

\* optional without its strict parameter: any falsy value is replaced
optionalIgnoresStrict(validationObj, defaultValue, strict) ==
  IF Falsy(validationObj.value)
  THEN [obj |-> [validationObj EXCEPT !.value = defaultValue], void |-> TRUE]
  ELSE [obj |-> validationObj, void |-> FALSE]

\* optional with || in the place of each &&: the condition is always true
optionalAlwaysSubstitutes(validationObj, defaultValue, strict) ==
  IF \/ strict = Bool(TRUE) \/ validationObj.value = Undefined
     \/ strict # Bool(TRUE) \/ Falsy(validationObj.value)
  THEN [obj |-> [validationObj EXCEPT !.value = defaultValue], void |-> TRUE]
  ELSE [obj |-> validationObj, void |-> FALSE]

\* Validation.prototype.optional(defaultValue, strict): the object after the
\* call and whether a new VoidValidation(defaultValue) is returned
optional(validationObj, defaultValue, strict) ==
  IF \/ strict = Bool(TRUE) /\ validationObj.value = Undefined
     \/ strict # Bool(TRUE) /\ Falsy(validationObj.value)
  THEN [obj |-> [validationObj EXCEPT !.value = defaultValue], void |-> TRUE]
  ELSE [obj |-> validationObj, void |-> FALSE]

\* optional(defaultValue, strict) called on the object the expression holds:
\* on a VoidValidation it is voidCheck
OptionalCall(defaultValue, strict) ==
  /\ cur.kind # "none"
  /\ expr.calls < MaxCalls
  /\ IF cur.kind = "Validation"
     THEN LET r == optional(heap[cur.id], defaultValue, strict)
          IN /\ heap' = [heap EXCEPT ![cur.id] = r.obj]
             /\ cur' = IF r.void THEN VoidValidation(defaultValue) ELSE cur
             /\ expr' = [expr EXCEPT
                  !.calls = @ + 1, !.last = "optional",
                  !.ops = Append(@, "optional"),
                  !.opt = r.void,
                  !.msgsAtOpt = IF r.void THEN heap[cur.id].messages ELSE @,
                  !.validAtOpt = IF r.void THEN heap[cur.id].isValid ELSE @,
                  !.default = IF r.void THEN defaultValue ELSE @]
     ELSE /\ cur' = VoidMethod("optional", cur)
          /\ UNCHANGED heap
          /\ expr' = [expr EXCEPT !.calls = @ + 1, !.last = "optional",
                                  !.ops = Append(@, "optional")]
  /\ UNCHANGED <<obj, validations, req>>

Optional ==
  \E defaultValue \in Defaults, strict \in StrictArgs :
    OptionalCall(defaultValue, strict)

\* toInt() called on the object the expression holds: on a VoidValidation it
\* is voidCheck, as every method but getValue is
ToInt ==
  /\ cur.kind # "none"
  /\ expr.calls < MaxCalls
  /\ IF cur.kind = "Validation"
     THEN /\ heap' = [heap EXCEPT ![cur.id] = toInt(heap[cur.id])]
          /\ UNCHANGED cur
     ELSE /\ cur' = VoidMethod("toInt", cur)
          /\ UNCHANGED heap
  /\ expr' = [expr EXCEPT !.calls = @ + 1, !.last = "sanitizer",
                          !.ops = Append(@, "toInt")]
  /\ UNCHANGED <<obj, validations, req>>

\* passes treating what is not a function as a condition that is false
passesRecordsFailure(validationObj, func, message) ==
  LET r == checkResult(validationObj,
                       TypeOf(func) = "function" /\ ~Throws(func)
                         /\ Call(func, validationObj.value) = Bool(TRUE),
                       message)
  IN [obj |-> r.obj, void |-> r.void, threw |-> FALSE, error |-> "none"]

\* Validation.prototype.passes(func, message): the object after the call,
\* whether a new VoidValidation is returned, and whether an exception
\* reaches the caller, and which: func(this.value) is evaluated before
\* checkResult is called
passes(validationObj, func, message) ==
  IF TypeOf(func) # "function"
  THEN [obj |-> validationObj, void |-> FALSE, threw |-> TRUE,
        error |-> ArgumentError]
  ELSE IF Throws(func)
  THEN [obj |-> validationObj, void |-> FALSE, threw |-> TRUE,
        error |-> CallerError]
  ELSE LET r == checkResult(validationObj,
                            Call(func, validationObj.value) = Bool(TRUE), message)
       IN [obj |-> r.obj, void |-> r.void, threw |-> FALSE, error |-> "none"]

\* toValue catching what the converter throws and storing undefined
toValueCatches(validationObj, converter) ==
  IF TypeOf(converter) # "function"
  THEN [obj |-> validationObj, threw |-> TRUE, error |-> ArgumentError]
  ELSE IF Throws(converter)
  THEN [obj |-> [validationObj EXCEPT !.value = Undefined],
        threw |-> FALSE, error |-> "none"]
  ELSE [obj |-> [validationObj EXCEPT !.value = Call(converter, @)],
        threw |-> FALSE, error |-> "none"]

\* Validation.prototype.toValue(converter): the object after the call and
\* whether an exception reaches the caller, and which: converter(this.value)
\* is evaluated before this.value is assigned
toValue(validationObj, converter) ==
  IF TypeOf(converter) # "function"
  THEN [obj |-> validationObj, threw |-> TRUE, error |-> ArgumentError]
  ELSE IF Throws(converter)
  THEN [obj |-> validationObj, threw |-> TRUE, error |-> CallerError]
  ELSE [obj |-> [validationObj EXCEPT !.value = Call(converter, @)],
        threw |-> FALSE, error |-> "none"]

\* passes(func, message) called on the object the expression holds; an Error
\* thrown ends the expression, and on a VoidValidation passes is voidCheck
PassesCall(func, message) ==
  /\ cur.kind # "none"
  /\ expr.calls < MaxCalls
  /\ IF cur.kind = "Validation"
     THEN LET r == passes(heap[cur.id], func, message)
          IN /\ heap' = [heap EXCEPT ![cur.id] = r.obj]
             /\ cur' = IF r.threw THEN NoRef
                        ELSE IF r.void THEN VoidValidation(r.obj.value) ELSE cur
             /\ expr' = [expr EXCEPT
                  !.calls = @ + 1,
                  !.ops = Append(@, "passes"),
                  !.fails = IF \/ r.threw
                               \/ /\ TypeOf(func) = "function"
                                  /\ ~Throws(func)
                                  /\ Call(func, CurValue) = Bool(TRUE)
                            THEN @ ELSE Append(@, message),
                  !.last = IF r.threw THEN "threw" ELSE "predicate",
                  !.error = r.error,
                  !.arg = func,
                  !.invoked = TypeOf(func) = "function"]
     ELSE LET r == VoidMethodCall("passes", cur, func)
          IN /\ cur' = IF r.threw THEN NoRef ELSE r.obj
             /\ UNCHANGED heap
             /\ expr' = [expr EXCEPT
                  !.calls = @ + 1,
                  !.ops = Append(@, "passes"),
                  !.fails = IF TypeOf(func) = "function" /\ ~Throws(func)
                               /\ Call(func, CurValue) # Bool(TRUE)
                            THEN Append(@, message) ELSE @,
                  !.last = IF r.threw THEN "threw" ELSE "predicate",
                  !.error = r.error,
                  !.arg = func,
                  !.invoked = r.invoked]
  /\ UNCHANGED <<obj, validations, req>>

Passes == \E func \in Funcs, message \in Msgs : PassesCall(func, message)

\* toValue(converter) called on the object the expression holds; an Error
\* thrown ends the expression, and on a VoidValidation toValue is voidCheck
ToValueCall(converter) ==
  /\ cur.kind # "none"
  /\ expr.calls < MaxCalls
  /\ IF cur.kind = "Validation"
     THEN LET r == toValue(heap[cur.id], converter)
          IN /\ heap' = [heap EXCEPT ![cur.id] = r.obj]
             /\ cur' = IF r.threw THEN NoRef ELSE cur
             /\ expr' = [expr EXCEPT
                  !.calls = @ + 1,
                  !.ops = Append(@, "toValue"),
                  !.last = IF r.threw THEN "threw" ELSE "sanitizer",
                  !.error = r.error,
                  !.arg = converter,
                  !.invoked = TypeOf(converter) = "function"]
     ELSE LET r == VoidMethodCall("toValue", cur, converter)
          IN /\ cur' = IF r.threw THEN NoRef ELSE r.obj
             /\ UNCHANGED heap
             /\ expr' = [expr EXCEPT
                  !.calls = @ + 1,
                  !.ops = Append(@, "toValue"),
                  !.last = IF r.threw THEN "threw" ELSE "sanitizer",
                  !.error = r.error,
                  !.arg = converter,
                  !.invoked = r.invoked]
  /\ UNCHANGED <<obj, validations, req>>

ToValue == \E converter \in Converters : ToValueCall(converter)

\* getValue() of the object the expression holds
ChainGetValue == CurValue

\* The caller goes on with a reference it kept to a Validation object,
\* instead of the object the last call returned.
UseRetained ==
  \E id \in 1..Len(heap) :
    /\ cur # Ref(id)
    /\ cur' = Ref(id)
    /\ expr' = [NoExpr EXCEPT !.root = id, !.calls = expr.calls, !.last = "retained"]
    /\ UNCHANGED <<obj, validations, heap, req>>

Next ==
  \/ Validate
  \/ ValidateAll
  \/ IsInt
  \/ IsGreaterThan
  \/ HasLength
  \/ Optional
  \/ ToInt
  \/ UseRetained

Spec == Init /\ [][Next]_vars

\* The sessions whose expressions take functions of the caller: passes(func,
\* message) and toValue(converter), with optional() and one predicate
NextFn ==
  \/ Validate
  \/ ValidateAll
  \/ IsInt
  \/ Optional
  \/ Passes
  \/ ToValue

SpecFn == Init /\ [][NextFn]_vars

\* validate(key, trim) or validateAll(key, trim), for the keys of KeyNames
ValidateKey ==
  /\ Len(heap) < MaxKeyChains
  /\ \E key \in KeyNames, stopOnFail \in BOOLEAN, trim \in TrimArgs :
       addValidation(key, stopOnFail, trim = Bool(TRUE))

\* The sessions that validate up to MaxKeyChains times, a name inherited from
\* Object.prototype included, with two predicates
NextKeys ==
  \/ ValidateKey
  \/ IsInt
  \/ HasLength

SpecKeys == Init /\ [][NextKeys]_vars

\* validate(key, trim) or validateAll(key, trim) with a trim that is not
\* true: omitted, false, or 1 (the index forEach passes)
ValidatePlain ==
  /\ Len(heap) < MaxChains
  /\ \E key \in Names, stopOnFail \in BOOLEAN, trim \in TrimArgs \ {Bool(TRUE)} :
       addValidation(key, stopOnFail, trim = Bool(TRUE))

\* The sessions that trim nothing and call predicates only
NextPlain ==
  \/ ValidatePlain
  \/ IsInt
  \/ IsGreaterThan
  \/ HasLength

SpecPlain == Init /\ [][NextPlain]_vars

---------------------------------------------------------------------------
(* The predicates and sanitizers, value by value *)

\* Validation objects one session of the specifications of this section
\* creates
MaxValueChains == 1

\* a source {age: value}
ValueSources(values) == {[k \in {"age"} |-> value] : value \in values}

\* validate("age") or validateAll("age")
ValidateValue ==
  /\ Len(heap) < MaxValueChains
  /\ \E stopOnFail \in BOOLEAN : addValidation("age", stopOnFail, FALSE)

\* the values the shape predicates are called on
ShapeValues ==
  {Undefined, Null, Bool(TRUE), NaN, Num(1), Float(2, <<"5">>),
   Str(<<>>), Str(<<"a", "b", "c">>), Str(<<"1">>), Str(<<"2", ".", "5">>)}

\* the condition of isAlpha, isAlphanumeric, isDateFormat, isEmail,
\* isFileName, isHexColor and isUrl: typeof this.value === "string" &&
\* strings.isX(this.value), accepted being what the function of
\* ringo/utils/strings answers for the string
stringShapePasses(v, accepted) == TypeOf(v) = "string" /\ accepted

\* value % 1 !== 0, for a value of type number
ModOneIsNotZero(v) == v.t \in {"float", "NaN"}

\* isFloat passing for strings only
isFloatPassesStringsOnly(v) == TypeOf(v) = "string" /\ StringsIsFloat(v.s)

\* the condition of Validation.prototype.isFloat
isFloatPasses(v) ==
  \/ TypeOf(v) = "string" /\ StringsIsFloat(v.s)
  \/ TypeOf(v) = "number" /\ ModOneIsNotZero(v)

\* the condition of Validation.prototype.isNumeric
isNumericPasses(v, accepted) ==
  TypeOf(v) = "number" \/ (TypeOf(v) = "string" /\ accepted)

\* the condition of Validation.prototype.isNumber
isNumberPasses(v) ==
  \/ TypeOf(v) = "number"
  \/ TypeOf(v) = "string" /\ (StringsIsFloat(v.s) \/ StringsIsInt(v.s))

\* a predicate that asks a function of ringo/utils/strings about a string
StringShape(method) ==
  \E message \in Msgs, accepted \in BOOLEAN :
    Check(method, stringShapePasses(CurValue, accepted), message)

IsAlpha == StringShape("isAlpha")

IsAlphanumeric == StringShape("isAlphanumeric")

IsDateFormat == StringShape("isDateFormat")

IsEmail == StringShape("isEmail")

IsFileName == StringShape("isFileName")

IsHexColor == StringShape("isHexColor")

IsUrl == StringShape("isUrl")

IsFloat == \E message \in Msgs : Check("isFloat", isFloatPasses(CurValue), message)

IsNumeric ==
  \E message \in Msgs, accepted \in BOOLEAN :
    Check("isNumeric", isNumericPasses(CurValue, accepted), message)

IsNumber == \E message \in Msgs : Check("isNumber", isNumberPasses(CurValue), message)

InitShape ==
  /\ obj \in ValueSources(ShapeValues)
  /\ validations = [k \in {} |-> 0]
  /\ heap = <<>>
  /\ cur = NoRef
  /\ expr = NoExpr
  /\ req = NoRequest

\* The sessions that call the shape predicates on one value
NextShape ==
  \/ ValidateValue
  \/ IsAlpha
  \/ IsAlphanumeric
  \/ IsDateFormat
  \/ IsEmail
  \/ IsFileName
  \/ IsHexColor
  \/ IsUrl
  \/ IsFloat
  \/ IsNumeric
  \/ IsInt
  \/ IsNumber

SpecShape == InitShape /\ [][NextShape]_vars

\* the values the length predicates are called on
LengthValues ==
  {Undefined, Null, Bool(FALSE), NaN, Num(12),
   Str(<<>>), Str(<<"a", "b">>), Str(<<"a", "b", "c">>)}

\* the bounds passed to hasMinLength, hasMaxLength and hasLengthBetween
LengthBounds == {Num(1), Num(2), Num(3)}

\* hasMinLength measuring String(this.value)
hasMinLengthOfString(v, minLength) == Len(ToStringJS(v)) >= minLength.n

\* the condition of Validation.prototype.hasMinLength
hasMinLengthPasses(v, minLength) ==
  TypeOf(v) = "string" /\ Len(v.s) >= minLength.n

\* the condition of Validation.prototype.hasMaxLength
hasMaxLengthPasses(v, maxLength) ==
  TypeOf(v) = "string" /\ Len(v.s) <= maxLength.n

\* the condition of Validation.prototype.hasLengthBetween
hasLengthBetweenPasses(v, minLength, maxLength) ==
  TypeOf(v) = "string" /\ Len(v.s) >= minLength.n /\ Len(v.s) <= maxLength.n

HasLengthCall(length, message) ==
  Check("hasLength", hasLengthPasses(CurValue, length), message)

HasMinLengthCall(minLength, message) ==
  Check("hasMinLength", hasMinLengthPasses(CurValue, minLength), message)

HasMaxLengthCall(maxLength, message) ==
  Check("hasMaxLength", hasMaxLengthPasses(CurValue, maxLength), message)

HasLengthBetweenCall(minLength, maxLength, message) ==
  Check("hasLengthBetween",
        hasLengthBetweenPasses(CurValue, minLength, maxLength), message)

HasMinLength ==
  \E minLength \in LengthBounds, message \in Msgs :
    HasMinLengthCall(minLength, message)

HasMaxLength ==
  \E maxLength \in LengthBounds, message \in Msgs :
    HasMaxLengthCall(maxLength, message)

HasLengthBetween ==
  \E minLength \in LengthBounds, maxLength \in LengthBounds, message \in Msgs :
    HasLengthBetweenCall(minLength, maxLength, message)

InitLength ==
  /\ obj \in ValueSources(LengthValues)
  /\ validations = [k \in {} |-> 0]
  /\ heap = <<>>
  /\ cur = NoRef
  /\ expr = NoExpr
  /\ req = NoRequest

\* The sessions that call the length predicates on one value
NextLength ==
  \/ ValidateValue
  \/ HasLength
  \/ HasMinLength
  \/ HasMaxLength
  \/ HasLengthBetween

SpecLength == InitLength /\ [][NextLength]_vars

\* the values the null predicates are called on
NullValues ==
  {Undefined, Null, Bool(FALSE), Num(0), NaN, Str(<<>>),
   Str(<<"n", "u", "l", "l">>)}

\* the condition of Validation.prototype.isNull: this.value == null
isNullPasses(v) == v = Null \/ v = Undefined

\* the condition of Validation.prototype.isNotNull: this.value != null
isNotNullPasses(v) == ~(v = Null \/ v = Undefined)

\* isStrictNull comparing with ==
isStrictNullLoose(v) == v = Null \/ v = Undefined

\* the condition of Validation.prototype.isStrictNull: this.value === null
isStrictNullPasses(v) == v = Null

\* the condition of Validation.prototype.isStrictNotNull: this.value !== null
isStrictNotNullPasses(v) == v # Null

IsNull == \E message \in Msgs : Check("isNull", isNullPasses(CurValue), message)

IsNotNull ==
  \E message \in Msgs : Check("isNotNull", isNotNullPasses(CurValue), message)

IsStrictNull ==
  \E message \in Msgs : Check("isStrictNull", isStrictNullPasses(CurValue), message)

IsStrictNotNull ==
  \E message \in Msgs :
    Check("isStrictNotNull", isStrictNotNullPasses(CurValue), message)

InitNull ==
  /\ obj \in ValueSources(NullValues)
  /\ validations = [k \in {} |-> 0]
  /\ heap = <<>>
  /\ cur = NoRef
  /\ expr = NoExpr
  /\ req = NoRequest

\* The sessions that call the null predicates on one value
NextNull ==
  \/ ValidateValue
  \/ IsNull
  \/ IsNotNull
  \/ IsStrictNull
  \/ IsStrictNotNull

SpecNull == InitNull /\ [][NextNull]_vars

\* the values toInt and toFloat are called on
NumberValues ==
  {Undefined, Num(15), Float(2, <<"5">>),
   Str(<<>>), Str(<<"a", "b", "c">>), Str(<<"1", "5">>), Str(<<"0", "7">>),
   Str(<<" ", "1", "9", " ">>), Str(<<"2", ".", "5">>)}

\* toFloat handing every string to parseFloat
toFloatParsesAnything(validationObj) ==
  [validationObj EXCEPT !.value = ParseFloat(@)]

\* Validation.prototype.toFloat(): the object after the call
toFloat(validationObj) ==
  LET value == IF TypeOf(validationObj.value) = "string"
                    /\ ~StringsIsFloat(validationObj.value.s)
               THEN NaN ELSE validationObj.value
  IN [validationObj EXCEPT !.value = ParseFloat(value)]

\* toFloat() called on the object the expression holds: on a VoidValidation
\* it is voidCheck
ToFloat ==
  /\ cur.kind # "none"
  /\ expr.calls < MaxCalls
  /\ IF cur.kind = "Validation"
     THEN /\ heap' = [heap EXCEPT ![cur.id] = toFloat(heap[cur.id])]
          /\ UNCHANGED cur
     ELSE /\ cur' = VoidMethod("toFloat", cur)
          /\ UNCHANGED heap
  /\ expr' = [expr EXCEPT !.calls = @ + 1, !.last = "sanitizer",
                          !.ops = Append(@, "toFloat")]
  /\ UNCHANGED <<obj, validations, req>>

\* Number.isNaN(v)
NumberIsNaN(v) == v = NaN

IsNaN == \E message \in Msgs : Check("isNaN", NumberIsNaN(CurValue), message)

IsNotNaN == \E message \in Msgs : Check("isNotNaN", ~NumberIsNaN(CurValue), message)

InitNumber ==
  /\ obj \in ValueSources(NumberValues)
  /\ validations = [k \in {} |-> 0]
  /\ heap = <<>>
  /\ cur = NoRef
  /\ expr = NoExpr
  /\ req = NoRequest

\* The sessions that convert one value to a number and test it for NaN
NextNumber ==
  \/ ValidateValue
  \/ ToInt
  \/ ToFloat
  \/ IsNaN
  \/ IsNotNaN

SpecNumber == InitNumber /\ [][NextNumber]_vars

\* the values toBoolean is called on
BooleanValues ==
  {Undefined, Null, Bool(FALSE), Bool(TRUE), Num(0), Num(1), NaN,
   Str(<<>>), Str(<<"0">>), Str(<<"1">>), Str(<<"t", "r", "u", "e">>),
   Str(<<"f", "a", "l", "s", "e">>), Str(<<"a", "s", "d", "f">>)}

\* the strictTrue argument of toBoolean: omitted, false, true or 1
StrictTrueArgs == {Undefined, Bool(FALSE), Bool(TRUE), Num(1)}

\* toBoolean converting every falsy value to false when not strict
toBooleanByTruthiness(validationObj, strictTrue) ==
  LET v == validationObj.value
  IN IF ~Falsy(strictTrue)
     THEN [validationObj EXCEPT
             !.value = Bool(v = Str(<<"1">>) \/ v = Str(<<"t", "r", "u", "e">>))]
     ELSE [validationObj EXCEPT
             !.value = Bool(/\ ~Falsy(v)
                            /\ v # Str(<<"0">>)
                            /\ v # Str(<<"f", "a", "l", "s", "e">>))]

\* Validation.prototype.toBoolean(strictTrue): the object after the call
toBoolean(validationObj, strictTrue) ==
  LET v == validationObj.value
  IN IF ~Falsy(strictTrue)
     THEN [validationObj EXCEPT
             !.value = Bool(v = Str(<<"1">>) \/ v = Str(<<"t", "r", "u", "e">>))]
     ELSE [validationObj EXCEPT
             !.value = Bool(/\ v # Null
                            /\ v # Undefined
                            /\ v # Str(<<"0">>)
                            /\ v # Str(<<"f", "a", "l", "s", "e">>)
                            /\ v # Str(<<>>))]

\* toBoolean(strictTrue) called on the object the expression holds: on a
\* VoidValidation it is voidCheck
ToBooleanCall(strictTrue) ==
  /\ cur.kind # "none"
  /\ expr.calls < MaxCalls
  /\ IF cur.kind = "Validation"
     THEN /\ heap' = [heap EXCEPT ![cur.id] = toBoolean(heap[cur.id], strictTrue)]
          /\ UNCHANGED cur
     ELSE /\ cur' = VoidMethod("toBoolean", cur)
          /\ UNCHANGED heap
  /\ expr' = [expr EXCEPT !.calls = @ + 1, !.last = "sanitizer",
                          !.ops = Append(@, "toBoolean")]
  /\ UNCHANGED <<obj, validations, req>>

ToBoolean == \E strictTrue \in StrictTrueArgs : ToBooleanCall(strictTrue)

InitBoolean ==
  /\ obj \in ValueSources(BooleanValues)
  /\ validations = [k \in {} |-> 0]
  /\ heap = <<>>
  /\ cur = NoRef
  /\ expr = NoExpr
  /\ req = NoRequest

\* The sessions that convert one value to a boolean, after a predicate or
\* not
NextBoolean ==
  \/ ValidateValue
  \/ IsNotNull
  \/ ToBoolean

SpecBoolean == InitBoolean /\ [][NextBoolean]_vars

---------------------------------------------------------------------------
(* The JSGI middleware *)

\* requests handled one after the other
MaxRequests == 2

\* req.method
Methods == {"GET", "POST", "PUT", "DELETE"}

\* req.postParams and req.queryParams: {age: "15", foo: " 19 "} or
\* {age: "19", foo: ""}
Params == {Source(Str(<<"1", "5">>), Str(<<" ", "1", "9", " ">>)),
           Source(Str(<<"1", "9">>), Str(<<>>))}

\* the n-th request, as it reaches the middleware
Requests(n) ==
  {[NoRequest EXCEPT !.method = m, !.postParams = p, !.queryParams = q,
                     !.phase = "arrived", !.n = n] :
     m \in Methods, p \in Params, q \in Params}

\* no Validator exists before the middleware runs
InitReq ==
  /\ obj = [k \in {} |-> Undefined]
  /\ validations = [k \in {} |-> 0]
  /\ heap = <<>>
  /\ cur = NoRef
  /\ expr = NoExpr
  /\ req \in Requests(1)

\* the middleware taking req.postParams for POST only
MiddlewarePostOnly ==
  /\ req.phase = "arrived"
  /\ obj' = IF req.method = "POST" THEN req.postParams ELSE req.queryParams
  /\ validations' = [k \in {} |-> 0]
  /\ heap' = <<>>
  /\ cur' = NoRef
  /\ expr' = NoExpr
  /\ req' = [req EXCEPT !.phase = "handling", !.sessions = @ + 1, !.nexts = @ + 1]

\* function validator(req): new Validator(...), the accessors defined on
\* req, and the call of next(req), whose handler the following steps are
Middleware ==
  /\ req.phase = "arrived"
  /\ obj' = IF req.method = "POST" \/ req.method = "PUT"
            THEN req.postParams ELSE req.queryParams
  /\ validations' = [k \in {} |-> 0]
  /\ heap' = <<>>
  /\ cur' = NoRef
  /\ expr' = NoExpr
  /\ req' = [req EXCEPT !.phase = "handling", !.sessions = @ + 1, !.nexts = @ + 1]

\* req.validate(name, trim): validator.validate(name, trim === true)
ReqValidate ==
  /\ req.phase = "handling"
  /\ Len(heap) < MaxChains
  /\ \E name \in Names, trim \in TrimArgs :
       addValidation(name, TRUE, Bool(trim = Bool(TRUE)) = Bool(TRUE))

\* req.validateAll(name, trim): validator.validateAll(name, trim === true)
ReqValidateAll ==
  /\ req.phase = "handling"
  /\ Len(heap) < MaxChains
  /\ \E name \in Names, trim \in TrimArgs :
       addValidation(name, FALSE, Bool(trim = Bool(TRUE)) = Bool(TRUE))

\* req.hasFailures(name): validator.hasFailures()
ReqHasFailures(name) == HasFailuresAny

\* req.failureMessages(name), name given: validator.getMessages(name)
ReqFailureMessages(name) == GetMessages(name)

\* next(req) returns, and the middleware returns its result
HandlerReturns ==
  /\ req.phase = "handling"
  /\ req' = [req EXCEPT !.phase = "done"]
  /\ UNCHANGED <<obj, validations, heap, cur, expr>>

\* the application calls the middleware function with its next request
NextRequest ==
  /\ req.phase = "done"
  /\ req.n < MaxRequests
  /\ req' \in Requests(req.n + 1)
  /\ obj' = [k \in {} |-> Undefined]
  /\ validations' = [k \in {} |-> 0]
  /\ heap' = <<>>
  /\ cur' = NoRef
  /\ expr' = NoExpr

\* The requests: the middleware, and a handler that validates parameters
\* with two predicates
NextReq ==
  \/ Middleware
  \/ ReqValidate
  \/ ReqValidateAll
  \/ IsInt
  \/ HasLength
  \/ HandlerReturns
  \/ NextRequest

SpecReq == InitReq /\ [][NextReq]_vars

---------------------------------------------------------------------------
(* Properties *)

\* the key of the expression in progress
ExprKey == heap[expr.root].key

\* the expression in progress is one chained expression that started at
\* validate (stop = TRUE) or validateAll (stop = FALSE), and optional() has
\* not substituted in it
ChainedFrom(stop) ==
  /\ expr.root # 0
  /\ expr.chained
  /\ ~expr.opt
  /\ heap[expr.root].stopOnFail = stop

\* C1: in a chained expression that started at validate(name), only the first
\* predicate whose condition is false records its message: getMessages(name)
\* is empty while none has failed, and afterwards holds exactly the message
\* of the first failing predicate, however many fail later.
StopOnFailRecordsFirstOnly ==
  ChainedFrom(TRUE) =>
    GetMessages(ExprKey) =
      RetMsgs(IF expr.fails = <<>> THEN <<>> ELSE <<expr.fails[1]>>)

\* C1 witness: two predicates failed in a validate(name) expression and one
\* message, the first one's, is recorded
StopOnFailTwoFailures ==
  /\ ChainedFrom(TRUE)
  /\ Len(expr.fails) >= 2
  /\ GetMessages(ExprKey) = RetMsgs(<<expr.fails[1]>>)
  /\ expr.fails[1] # expr.fails[2]

\* C2: in a chained expression that started at validateAll(name), every
\* predicate is evaluated whatever failed before it: getMessages(name) is the
\* sequence of the messages of the failing predicates, in call order.
CollectAllRecordsEveryFailure ==
  ChainedFrom(FALSE) => GetMessages(ExprKey) = RetMsgs(expr.fails)

\* C2 witness: two predicates failed in a validateAll(name) expression and
\* both messages are recorded in call order
CollectAllTwoFailures ==
  /\ ChainedFrom(FALSE)
  /\ Len(expr.fails) >= 2
  /\ expr.fails[1] # expr.fails[2]
  /\ GetMessages(ExprKey) = RetMsgs(expr.fails)

\* C3: a predicate called on a Validation (either mode) whose condition
\* holds leaves every Validation object (isValid, messages, value) as it was
\* and returns the object it was called on.
PassingPredicateChangesNothing ==
  [][(/\ expr'.last = "predicate"
      /\ expr'.calls = expr.calls + 1
      /\ cur.kind = "Validation"
      /\ expr'.fails = expr.fails)
     => (heap' = heap /\ cur' = cur)]_vars

\* C3 witness: a predicate has just passed on a Validation that had failed
\* before (collect-all mode), which still holds its one message
PassedAfterFailure ==
  /\ ChainedFrom(FALSE)
  /\ expr.last = "predicate"
  /\ cur = Ref(expr.root)
  /\ Len(expr.ops) = 2
  /\ Len(expr.fails) = 1
  /\ expr.fails[1] = MessageOf(expr.calls - 1)
  /\ ~heap[expr.root].isValid
  /\ heap[expr.root].messages = expr.fails


\* C4: for every name that was never validated, hasFailures(name) returns
\* true and getMessages(name) returns an empty array, without raising.
NeverValidatedHasNoMessages ==
  \A name \in Names \ DOMAIN validations :
    /\ HasFailures(name) = RetBool(TRUE)
    /\ GetMessages(name) = RetMsgs(<<>>)

\* C5: getValue(name) returns the value of the Validation registered for
\* name, and undefined, without raising, for a name that was never validated.
GetValueOfAnyName ==
  \A name \in Names :
    GetValue(name) =
      IF name \in DOMAIN validations
      THEN RetValue(heap[validations[name]].value)
      ELSE RetValue(Undefined)

RevalidateReplaces ==
  expr.last \in {"validate", "validateAll"} =>
    LET raw == IF ExprKey \in DOMAIN obj THEN obj[ExprKey] ELSE Undefined
    IN /\ validations[ExprKey] = expr.root
       /\ HasFailures(ExprKey) = RetBool(FALSE)
       /\ GetMessages(ExprKey) = RetMsgs(<<>>)
       /\ \/ GetValue(ExprKey) = RetValue(raw)
          \/ TypeOf(raw) = "string" /\ GetValue(ExprKey) = RetValue(Str(Trim(raw.s)))

\* C7 witness: the key was validated before, and its earlier Validation had
\* failed and converted its value
RevalidatedAfterFailure ==
  /\ expr.last \in {"validate", "validateAll"}
  /\ expr.root = 2
  /\ heap[1].key = ExprKey
  /\ ~heap[1].isValid
  /\ heap[1].value # heap[2].value
  /\ HasFailures(ExprKey) = RetBool(FALSE)

\* C8: over {age: "15"}, validate("age").isInt(m1).toInt().isGreaterThan(17, m2)
\* records the one message m2 and getValue("age") is the number 15; over
\* {age: "19"} the same expression records no failure and getValue("age") is
\* the number 19.
AgeExample ==
  (/\ ChainedFrom(TRUE)
   /\ ExprKey = "age"
   /\ "age" \in DOMAIN obj
   /\ expr.ops = <<"isInt", "toInt", "isGreaterThan">>)
  => /\ obj["age"] = Str(<<"1", "5">>) =>
          /\ GetMessages("age") = RetMsgs(<<MessageOf(expr.calls)>>)
          /\ GetValue("age") = RetValue(Num(15))
     /\ obj["age"] = Str(<<"1", "9">>) =>
          /\ HasFailures("age") = RetBool(FALSE)
          /\ GetMessages("age") = RetMsgs(<<>>)
          /\ GetValue("age") = RetValue(Num(19))

\* C8 witness: the expression has run over {age: "15"}
AgeFifteenChecked ==
  /\ ChainedFrom(TRUE)
  /\ ExprKey = "age"
  /\ "age" \in DOMAIN obj
  /\ obj["age"] = Str(<<"1", "5">>)
  /\ expr.ops = <<"isInt", "toInt", "isGreaterThan">>
  /\ GetValue("age") = RetValue(Num(15))
  /\ Len(GetMessages("age").msgs) = 1

\* the expression in progress is one chained expression in which optional()
\* has substituted
OptionalSubstituted == expr.root # 0 /\ expr.chained /\ expr.opt

\* C9: optional() without strict, called on a Validation of either mode
\* whose value is falsy, returns a VoidValidation; and once optional() has
\* substituted, the predicates called on what it returned record nothing:
\* the Validation keeps the messages and the validity it had, so that
\* hasFailures(name) is false when nothing had failed before optional().
NonStrictOptionalSwitchesToVoid ==
  /\ [][\A defaultValue \in Defaults :
          (/\ OptionalCall(defaultValue, Undefined)
           /\ cur.kind = "Validation"
           /\ Falsy(CurValue))
          => cur'.kind = "VoidValidation"]_vars
  /\ [](OptionalSubstituted =>
          /\ cur.kind = "VoidValidation"
          /\ heap[expr.root].messages = expr.msgsAtOpt
          /\ heap[expr.root].isValid = expr.validAtOpt
          /\ (expr.validAtOpt => HasFailures(ExprKey) = RetBool(FALSE)))

\* C9 witness: validateAll(name).optional() on the value 0, then a predicate
\* whose condition is false for the substituted value, and no failure
SkippedAfterOptional ==
  /\ OptionalSubstituted
  /\ ~heap[expr.root].stopOnFail
  /\ ExprKey \in DOMAIN obj
  /\ obj[ExprKey] = Num(0)
  /\ expr.ops[1] = "optional"
  /\ Len(expr.ops) >= 2
  /\ expr.fails # <<>>
  /\ HasFailures(ExprKey) = RetBool(FALSE)

\* C10: once optional(defaultValue) has substituted, getValue(name) of the
\* session and getValue() of the object the expression holds both return
\* defaultValue.
DefaultBecomesValue ==
  OptionalSubstituted =>
    /\ GetValue(ExprKey) = RetValue(expr.default)
    /\ ChainGetValue = expr.default

\* C10 witness: optional(4) has substituted for a false value and another
\* method was called afterwards
DefaultFourSubstituted ==
  /\ OptionalSubstituted
  /\ ExprKey \in DOMAIN obj
  /\ obj[ExprKey] = Bool(FALSE)
  /\ expr.default = Num(4)
  /\ Len(expr.ops) >= 2
  /\ GetValue(ExprKey) = RetValue(Num(4))

\* optional() was the first call of the expression, and optional() with no
\* default has substituted, before any failure, in a chain whose source value
\* is the empty string or whose key the source does not have
OptionalNoDefault ==
  /\ OptionalSubstituted
  /\ expr.ops[1] = "optional"
  /\ expr.validAtOpt
  /\ expr.default = Undefined
  /\ (ExprKey \notin DOMAIN obj \/ obj[ExprKey] = Str(<<>>))

OptionalFirstOnAbsent ==
  /\ expr.root # 0
  /\ expr.chained
  /\ expr.ops # <<>>
  /\ expr.ops[1] = "optional"
  /\ ExprKey \notin DOMAIN obj

StrictOptionalOnlyForUndefined ==
  /\ [][\A defaultValue \in Defaults :
          (OptionalCall(defaultValue, Bool(TRUE)) /\ cur.kind = "Validation")
          => IF CurValue = Undefined
             THEN /\ cur' = VoidValidation(defaultValue)
                  /\ heap'[cur.id].value = defaultValue
             ELSE /\ cur' = cur
                  /\ heap' = heap]_vars
  /\ []((/\ expr.root # 0
          /\ expr.chained
          /\ ~expr.opt
          /\ Len(expr.ops) = 2
          /\ expr.ops[1] = "optional"
          /\ expr.last = "predicate")
         => heap[expr.root].messages = expr.fails)

\* C14 witness: optional(d, true) left the empty string of the source in
\* place, and the predicate called next failed on it and was recorded
StrictOptionalKeptEmptyString ==
  /\ expr.root # 0
  /\ expr.chained
  /\ ~expr.opt
  /\ expr.ops = <<"optional", "isInt">>
  /\ ExprKey \in DOMAIN obj
  /\ obj[ExprKey] = Str(<<>>)
  /\ GetValue(ExprKey) = RetValue(Str(<<>>))
  /\ GetMessages(ExprKey) = RetMsgs(<<MessageOf(expr.calls)>>)

\* the value is present for optional(defaultValue, strict): not undefined
\* when strict is true, truthy otherwise
Present(value, strict) ==
  IF strict = Bool(TRUE) THEN value # Undefined ELSE ~Falsy(value)

\* C15: optional() called on a Validation whose value is present changes
\* nothing (value, isValid, messages) and returns the Validation; and in an
\* expression where no optional() has substituted, a predicate that fails
\* after optional() is recorded: the field has a failure and its first
\* message is that of the first failing predicate.
OptionalOnPresentIsNoOp ==
  /\ [][\A defaultValue \in Defaults, strict \in StrictArgs :
          (/\ OptionalCall(defaultValue, strict)
           /\ cur.kind = "Validation"
           /\ Present(CurValue, strict))
          => (cur' = cur /\ heap' = heap)]_vars
  /\ []((/\ expr.root # 0
          /\ expr.chained
          /\ ~expr.opt
          /\ expr.ops # <<>>
          /\ expr.ops[1] = "optional"
          /\ expr.fails # <<>>)
         => /\ HasFailures(ExprKey) = RetBool(TRUE)
            /\ heap[expr.root].messages # <<>>
            /\ heap[expr.root].messages[1] = expr.fails[1])

\* C15 witness: optional() on the string "15", then isGreaterThan(17, m),
\* which fails and is recorded
FailureAfterOptionalOnPresent ==
  /\ expr.root # 0
  /\ expr.chained
  /\ expr.ops = <<"optional", "isGreaterThan">>
  /\ GetValue(ExprKey) = RetValue(Str(<<"1", "5">>))
  /\ HasFailures(ExprKey) = RetBool(TRUE)
  /\ GetMessages(ExprKey) = RetMsgs(<<MessageOf(expr.calls)>>)

\* C16: passes(f, message) and toValue(f) called on a Validation with an f
\* that is not callable (undefined, a string, a number) throw an Error to the
\* caller and leave every Validation as it was: no message is appended,
\* isValid and the value are unchanged.
NonCallableRaises ==
  [][\A f \in NonCallables :
       (/\ cur.kind = "Validation"
        /\ \/ \E message \in Msgs : PassesCall(f, message)
           \/ ToValueCall(f))
       => (expr'.last = "threw" /\ cur' = NoRef /\ heap' = heap)]_vars

\* C16 witness: passes was the first call of a validate(name) expression
\* and it threw; the Validation is valid, without message, its value is the
\* one it started with
PassesThrew ==
  /\ expr.root # 0
  /\ expr.chained
  /\ expr.last = "threw"
  /\ expr.ops = <<"passes">>
  /\ heap[expr.root].stopOnFail
  /\ heap[expr.root].value = Str(<<"1", "5">>)
  /\ HasFailures(ExprKey) = RetBool(FALSE)
  /\ GetMessages(ExprKey) = RetMsgs(<<>>)

\* t is s without its leading and trailing white space: t neither starts nor
\* ends with white space, and s is t between two runs of white space
IsTrimOf(t, s) ==
  /\ t = <<>> \/ (~IsSpace(t[1]) /\ ~IsSpace(t[Len(t)]))
  /\ \E i \in 0..(Len(s) - Len(t)) :
       /\ SubSeq(s, i + 1, i + Len(t)) = t
       /\ \A k \in 1..i : IsSpace(s[k])
       /\ \A k \in (i + Len(t) + 1)..Len(s) : IsSpace(s[k])

\* C17: the Validation that validate(key, trim) or validateAll(key, trim)
\* creates starts with the source value without its leading and trailing
\* white space when that value is a string and trim is exactly true, and with
\* the source value itself (undefined for a key the source does not have)
\* in every other case: trim omitted, false or 1, or a value of another type.
TrimOnlyStringsWhenTrue ==
  [][\A key \in Names, trim \in TrimArgs, stopOnFail \in BOOLEAN :
       addValidation(key, stopOnFail, trim = Bool(TRUE)) =>
         LET raw == IF key \in DOMAIN obj THEN obj[key] ELSE Undefined
             value == heap'[Len(heap')].value
         IN IF raw.t = "string" /\ trim = Bool(TRUE)
            THEN value.t = "string" /\ IsTrimOf(value.s, raw.s)
            ELSE value = raw]_vars

\* C17 witness: validate("foo", true) over {foo: " 19 "} has just created a
\* Validation whose value is "19"
TrimmedNineteen ==
  /\ expr.last \in {"validate", "validateAll"}
  /\ ExprKey \in DOMAIN obj
  /\ obj[ExprKey] = Str(<<" ", "1", "9", " ">>)
  /\ GetValue(ExprKey) = RetValue(Str(<<"1", "9">>))

FirstValidated(key) ==
  CHOOSE i \in 1..Len(heap) :
    heap[i].key = key /\ \A j \in 1..(i - 1) : heap[j].key # key

\* C20: getMessages() returns one entry per registered field, which holds
\* the messages of the Validation registered for it (none for a valid field),
\* and the entries are in the order in which the fields were first validated,
\* whatever was validated again.
GetMessagesListsEveryField ==
  LET r == GetMessagesAll
  IN /\ Len(r) = Cardinality(DOMAIN validations)
     /\ \A key \in DOMAIN validations : \E i \in 1..Len(r) : r[i][1] = key
     /\ \A i \in 1..Len(r) :
          /\ r[i][1] \in DOMAIN validations
          /\ r[i][2] = heap[validations[r[i][1]]].messages
          /\ (heap[validations[r[i][1]]].isValid => r[i][2] = <<>>)
     /\ \A i, j \in 1..Len(r) :
          i < j => FirstValidated(r[i][1]) < FirstValidated(r[j][1])

\* C20 witness: "foo", then "age", then "foo" again were validated, "foo" is
\* valid and "age" has a message; getMessages() lists "foo" first
RevalidatedKeepsPlace ==
  /\ Len(heap) = 3
  /\ heap[1].key = "foo" /\ heap[2].key = "age" /\ heap[3].key = "foo"
  /\ ~heap[2].isValid
  /\ GetMessagesAll = <<<<"foo", <<>>>>, <<"age", heap[2].messages>>>>
  /\ heap[2].messages # <<>>

\* the mapping an object with the properties pairs is
AsMapping(pairs) ==
  [key \in {pairs[i][1] : i \in 1..Len(pairs)} |->
     LET i == CHOOSE i \in 1..Len(pairs) : pairs[i][1] = key IN pairs[i][2]]

OtherFieldsUntouched ==
  [][/\ \A i \in 1..Len(heap) :
          (cur.kind # "Validation" \/ i # cur.id) => heap'[i] = heap[i]
     /\ expr'.calls = expr.calls + 1 => validations' = validations
     /\ Len(heap') = Len(heap) + 1 =>
          /\ heap'[Len(heap')].isValid = TRUE
          /\ heap'[Len(heap')].messages = <<>>
          /\ validations'[heap'[Len(heap')].key] = Len(heap')
          /\ \A key \in DOMAIN validations \ {heap'[Len(heap')].key} :
               validations'[key] = validations[key]
     /\ (expr'.last = "predicate" /\ expr'.calls = expr.calls + 1
           /\ cur.kind = "Validation") =>
          /\ heap'[cur.id].isValid =
               (heap[cur.id].isValid /\ expr'.fails = expr.fails)
          /\ heap'[cur.id].value = heap[cur.id].value]_vars

\* C22 witness: validate(A) failed and stopped, and a predicate called on
\* the chain of validate(B) afterwards passed, A's Validation still holding
\* its one message
OtherFieldFailedBefore ==
  /\ Len(heap) = 2
  /\ heap[1].key # heap[2].key
  /\ heap[1].stopOnFail = TRUE
  /\ ~heap[1].isValid
  /\ Len(heap[1].messages) = 1
  /\ cur = Ref(2)
  /\ expr.chained
  /\ expr.last = "predicate"
  /\ heap[2].isValid
  /\ HasFailures(heap[1].key) = RetBool(TRUE)
  /\ HasFailures(heap[2].key) = RetBool(FALSE)

\* C28 (as stated): while a request is handled, req.hasFailures(name) is
\* what validator.hasFailures(name) returns and req.failureMessages(name) is
\* what validator.getMessages(name) returns, for every name.
ReqAccessorsForwardName ==
  req.phase = "handling" =>
    \A name \in Names :
      /\ ReqHasFailures(name) = HasFailures(name)
      /\ ReqFailureMessages(name) = GetMessages(name)

\* C29: once the middleware has run for a request, the session is over
\* req.postParams when the method is POST or PUT and over req.queryParams
\* otherwise, one session was built for the request and next(req) was called
\* once; before it runs, neither happened.
MiddlewareBuildsOneSession ==
  /\ req.phase = "arrived" => req.sessions = 0 /\ req.nexts = 0
  /\ req.phase \in {"handling", "done"} =>
       /\ obj = IF req.method \in {"POST", "PUT"}
                THEN req.postParams ELSE req.queryParams
       /\ req.sessions = 1
       /\ req.nexts = 1

\* C29 witness: the second request, a PUT whose body and query differ, was
\* handled over its body: validate("foo", true) gave "19"
PutHandledOverBody ==
  /\ req.n = 2
  /\ req.method = "PUT"
  /\ req.phase = "done"
  /\ req.postParams # req.queryParams
  /\ obj = req.postParams
  /\ "foo" \in DOMAIN validations
  /\ GetValue("foo") = RetValue(Str(<<"1", "9">>))

\* C30: passes(f, message) and toValue(f) called on a Validation with an f
\* that throws let the caller see the exception f threw, and leave every
\* Validation as it was: isValid, messages and value are those before the
\* call, and the registrations are unchanged.
CallerExceptionPropagates ==
  [][(/\ cur.kind = "Validation"
      /\ \/ \E message \in Msgs : PassesCall(Thrower, message)
         \/ ToValueCall(Thrower))
     => (/\ expr'.last = "threw"
         /\ expr'.error = CallerError
         /\ cur' = NoRef
         /\ heap' = heap
         /\ validations' = validations)]_vars

\* C30 witness: in validateAll(name).isInt(m).toValue(f) the predicate
\* failed and then f threw; the Validation holds the one message of isInt
\* and the value it started with
ConverterThrewAfterFailure ==
  /\ expr.root # 0
  /\ expr.chained
  /\ expr.last = "threw"
  /\ expr.error = CallerError
  /\ expr.ops = <<"isInt", "toValue">>
  /\ ~heap[expr.root].stopOnFail
  /\ heap[expr.root].value = Str(<<" ", "1", "9", " ">>)
  /\ GetMessages(ExprKey) = RetMsgs(expr.fails)
  /\ Len(expr.fails) = 1

\* the method called in this step
Called == expr'.ops[Len(expr'.ops)]

\* this step is a call of one of methods on a Validation
CallOn(methods) ==
  /\ cur.kind = "Validation"
  /\ expr'.calls = expr.calls + 1
  /\ Called \in methods

\* the predicate called in this step passed: the Validation is as it was
StepPassed == heap'[cur.id] = heap[cur.id]

\* the predicate called in this step failed: the Validation is invalid and
\* has one more message, and its value is as it was
StepFailed ==
  /\ ~heap'[cur.id].isValid
  /\ Len(heap'[cur.id].messages) = Len(heap[cur.id].messages) + 1
  /\ heap'[cur.id].value = heap[cur.id].value

ShapeMethods ==
  {"isAlpha", "isAlphanumeric", "isFloat", "isEmail", "isUrl", "isFileName",
   "isHexColor", "isDateFormat"}

\* C23 (as stated): each of isAlpha, isAlphanumeric, isFloat, isEmail, isUrl,
\* isFileName, isHexColor and isDateFormat records a failure when the value
\* is not a string.
ShapePredicatesNeedString ==
  [][(CallOn(ShapeMethods) /\ TypeOf(heap[cur.id].value) # "string")
     => StepFailed]_vars

\* C23 (amended): the seven predicates other than isFloat fail on every value
\* that is not a string; isFloat, isNumeric, isInt and isNumber fail on every
\* value that is neither a string nor a number; on a number, isNumeric and
\* isNumber pass, isInt passes iff it is an integer, and isFloat passes iff
\* it is not (NaN included); on a string, isFloat passes iff the string is a
\* float literal.
ShapePredicatesByType ==
  [][LET v == heap[cur.id].value
     IN /\ (CallOn(ShapeMethods \ {"isFloat"}) /\ TypeOf(v) # "string")
             => StepFailed
        /\ (CallOn({"isFloat", "isNumeric", "isInt", "isNumber"})
              /\ TypeOf(v) \notin {"string", "number"}) => StepFailed
        /\ (CallOn({"isNumeric", "isNumber"}) /\ TypeOf(v) = "number")
             => StepPassed
        /\ (CallOn({"isInt"}) /\ TypeOf(v) = "number")
             => IF v.t = "number" THEN StepPassed ELSE StepFailed
        /\ (CallOn({"isFloat"}) /\ TypeOf(v) = "number")
             => IF v.t = "number" THEN StepFailed ELSE StepPassed
        /\ (CallOn({"isFloat"}) /\ TypeOf(v) = "string")
             => IF StringsIsFloat(v.s) THEN StepPassed ELSE StepFailed]_vars

\* C23 witness: validate("age").isFloat(m) on {age: 2.5} passed
IsFloatPassedOnNumber ==
  /\ expr.root # 0
  /\ expr.chained
  /\ expr.ops = <<"isFloat">>
  /\ heap[expr.root].value = Float(2, <<"5">>)
  /\ heap[expr.root].stopOnFail
  /\ heap[expr.root].isValid
  /\ HasFailures("age") = RetBool(FALSE)

\* the predicate called in this step returned: nothing was raised
StepReturned == expr'.last = "predicate" /\ cur'.kind # "none"

\* C24: a length predicate called on a Validation passes if the value is a
\* string whose length is the given one (hasLength), at least the minimum
\* (hasMinLength), at most the maximum (hasMaxLength), or both
\* (hasLengthBetween); otherwise, and so for null, undefined and every other
\* value that is not a string, it records a failure; it raises nothing.
LengthPredicatesNeedString ==
  [][LET v == heap[cur.id].value
         isString == TypeOf(v) = "string"
         Outcome(satisfied) ==
           /\ StepReturned
           /\ IF isString /\ satisfied THEN StepPassed ELSE StepFailed
     IN \A message \in Msgs :
          /\ \A length \in Lengths :
               (cur.kind = "Validation" /\ HasLengthCall(length, message))
               => Outcome(Len(v.s) = length.n)
          /\ \A minLength \in LengthBounds :
               (cur.kind = "Validation" /\ HasMinLengthCall(minLength, message))
               => Outcome(Len(v.s) >= minLength.n)
          /\ \A maxLength \in LengthBounds :
               (cur.kind = "Validation" /\ HasMaxLengthCall(maxLength, message))
               => Outcome(Len(v.s) <= maxLength.n)
          /\ \A minLength \in LengthBounds, maxLength \in LengthBounds :
               (/\ cur.kind = "Validation"
                /\ HasLengthBetweenCall(minLength, maxLength, message))
               => Outcome(Len(v.s) >= minLength.n /\ Len(v.s) <= maxLength.n)]_vars

\* C24 witness: validateAll("age") on {age: 12}, then hasMinLength and
\* hasMaxLength: both failed, and the value is still the number 12
LengthOfNumberFailed ==
  /\ expr.root # 0
  /\ expr.chained
  /\ expr.ops = <<"hasMinLength", "hasMaxLength">>
  /\ heap[expr.root].value = Num(12)
  /\ GetMessages("age") = RetMsgs(<<MessageOf(1), MessageOf(2)>>)
  /\ cur = Ref(expr.root)

\* C25: called on a Validation, isNotNull passes iff the value is neither
\* null nor undefined and isNull passes iff it is one of them; isStrictNotNull
\* passes iff the value is not null, so it passes for undefined, and
\* isStrictNull passes iff the value is null, so it fails for undefined.
NullPredicatesDifferOnUndefined ==
  [][LET v == heap[cur.id].value
         Outcome(condition) == IF condition THEN StepPassed ELSE StepFailed
     IN /\ CallOn({"isNotNull"}) => Outcome(v.t \notin {"null", "undefined"})
        /\ CallOn({"isNull"}) => Outcome(v.t \in {"null", "undefined"})
        /\ CallOn({"isStrictNotNull"}) => Outcome(v.t # "null")
        /\ CallOn({"isStrictNull"}) => Outcome(v.t = "null")]_vars

\* C25 witness: validateAll("age") on {age: undefined}, then
\* isStrictNotNull, isNotNull and isStrictNull: the first passed, the two
\* others failed
UndefinedIsNotStrictlyNull ==
  /\ expr.root # 0
  /\ expr.chained
  /\ expr.ops = <<"isStrictNotNull", "isNotNull", "isStrictNull">>
  /\ heap[expr.root].value = Undefined
  /\ GetMessages("age") = RetMsgs(<<MessageOf(2), MessageOf(3)>>)

\* C26: toInt() called on a Validation whose value is a string that
\* strings.isInt does not accept, and toFloat() on one that strings.isFloat
\* does not accept, set the value to NaN; on an accepted string they set the
\* number parseInt, resp. parseFloat, reads, which is not NaN; neither
\* records anything. isNaN passes and isNotNaN fails on NaN, and on every
\* other value isNaN fails and isNotNaN passes.
RejectedLiteralBecomesNaN ==
  [][LET v == heap[cur.id].value
         after == heap'[cur.id]
         Outcome(condition) == IF condition THEN StepPassed ELSE StepFailed
     IN /\ (CallOn({"toInt"}) /\ TypeOf(v) = "string") =>
             /\ after.value = IF StringsIsInt(v.s) THEN ParseInt(v) ELSE NaN
             /\ StringsIsInt(v.s) => after.value.t = "number"
        /\ (CallOn({"toFloat"}) /\ TypeOf(v) = "string") =>
             /\ after.value = IF StringsIsFloat(v.s) THEN ParseFloat(v) ELSE NaN
             /\ StringsIsFloat(v.s) => after.value.t \in {"number", "float"}
        /\ CallOn({"toInt", "toFloat"}) =>
             after = [heap[cur.id] EXCEPT !.value = after.value]
        /\ CallOn({"isNaN"}) => Outcome(v.t = "NaN")
        /\ CallOn({"isNotNaN"}) => Outcome(v.t # "NaN")]_vars

\* C26 witness: validateAll("age").toFloat().isNaN(m2).isNotNaN(m3) on
\* {age: "15"}: the value is NaN and the one message is that of isNotNaN
IntegerLiteralIsNoFloat ==
  /\ expr.root # 0
  /\ expr.chained
  /\ expr.ops = <<"toFloat", "isNaN", "isNotNaN">>
  /\ obj["age"] = Str(<<"1", "5">>)
  /\ heap[expr.root].value = NaN
  /\ GetMessages("age") = RetMsgs(<<MessageOf(3)>>)

\* C27: toBoolean(strictTrue) called on a Validation sets its value to a
\* boolean and changes nothing else: with a strictTrue that is true (or 1),
\* to true iff the value is the string "1" or the string "true"; with
\* strictTrue omitted or false, to true iff the value is none of null,
\* undefined, "0", "false" and "", so that false, 0 and NaN become true.
ToBooleanOfValue ==
  [][\A strictTrue \in StrictTrueArgs :
       (cur.kind = "Validation" /\ ToBooleanCall(strictTrue)) =>
         LET v == heap[cur.id].value
             strict == strictTrue \in {Bool(TRUE), Num(1)}
             isOneOf(strs) == v.t = "string" /\ v.s \in strs
             expected ==
               IF strict
               THEN isOneOf({<<"1">>, <<"t", "r", "u", "e">>})
               ELSE /\ v.t \notin {"null", "undefined"}
                    /\ ~isOneOf({<<"0">>, <<"f", "a", "l", "s", "e">>, <<>>})
         IN heap'[cur.id] = [heap[cur.id] EXCEPT !.value = Bool(expected)]]_vars

\* C27 witness: validate("age").toBoolean() on {age: false} gave true
FalseConvertedToTrue ==
  /\ expr.root # 0
  /\ expr.chained
  /\ expr.ops = <<"toBoolean">>
  /\ obj["age"] = Bool(FALSE)
  /\ heap[expr.root].value = Bool(TRUE)
  /\ GetValue("age") = RetValue(Bool(TRUE))

\* C31 (as stated): every Validation created by validate holds at most one
\* message, whether the predicates were called on the object the previous
\* call returned or on a reference kept to the Validation.
StopOnFailHoldsOneMessage ==
  \A i \in 1..Len(heap) :
    heap[i].stopOnFail => Len(heap[i].messages) <= 1

\* s is the beginning of t
IsPrefix(s, t) == Len(s) <= Len(t) /\ SubSeq(t, 1, Len(s)) = s

\* C32: no step sets the isValid of a Validation that is false back to true,
\* and every step leaves the messages of every Validation as they are or
\* appends to them.
FailureIsKept ==
  [][\A i \in 1..Len(heap) :
       /\ ~heap[i].isValid => ~heap'[i].isValid
       /\ IsPrefix(heap[i].messages, heap'[i].messages)]_vars

\* C32 witness: in validateAll("age").isGreaterThan(17, m1).isInt(m2).toInt()
\* on "15" the first predicate failed, the second passed and the sanitizer
\* gave 15; the Validation is still invalid and holds m1 only
PassedAfterFailureKeepsInvalid ==
  /\ expr.root # 0
  /\ expr.chained
  /\ expr.ops = <<"isGreaterThan", "isInt", "toInt">>
  /\ expr.fails = <<MessageOf(1)>>
  /\ heap[expr.root].value = Num(15)
  /\ ~heap[expr.root].isValid
  /\ heap[expr.root].messages = <<MessageOf(1)>>

ChainValueIsSessionValue ==
  (expr.root # 0 /\ expr.chained /\ cur.kind # "none") =>
    GetValue(ExprKey) = RetValue(ChainGetValue)

\* C34 witness: in validateAll(name).isInt(m1).toValue(f) the predicate
\* failed and f returned -1: the expression holds the Validation, and both
\* getValue() and getValue(name) return -1
ConvertedSeenThroughBoth ==
  /\ expr.root # 0
  /\ expr.chained
  /\ expr.ops = <<"isInt", "toValue">>
  /\ expr.fails = <<MessageOf(1)>>
  /\ cur = Ref(expr.root)
  /\ ChainGetValue = Num(0 - 1)
  /\ GetValue(ExprKey) = RetValue(Num(0 - 1))

\* the expression in progress started from a Validation that is no longer
\* the one registered for its key
StaleExpression ==
  /\ expr.root # 0
  /\ validations[heap[expr.root].key] # expr.root

\* C35: a call made in an expression that started from a replaced
\* Validation, on that Validation or on the VoidValidation it returned,
\* leaves every answer of the session as it was: hasFailures, getMessages
\* and getValue for every name and for none, and getValues.
StaleChainIsHarmless ==
  [][(StaleExpression /\ expr'.calls = expr.calls + 1) =>
       /\ HasFailuresAny' = HasFailuresAny
       /\ GetMessagesAll' = GetMessagesAll
       /\ GetValues' = GetValues
       /\ \A name \in Names :
            /\ HasFailures(name)' = HasFailures(name)
            /\ GetMessages(name)' = GetMessages(name)
            /\ GetValue(name)' = GetValue(name)]_vars

\* C35 witness: the name was validated twice, and the one call of the
\* session was made afterwards on the first Validation, where it failed; the
\* session reports no failure and no message for the name
FailedOnReplacedValidation ==
  /\ Len(heap) = 2
  /\ heap[1].key = heap[2].key
  /\ expr.root = 1
  /\ expr.calls = 1
  /\ Len(expr.ops) = 1
  /\ ~heap[1].isValid
  /\ Len(heap[1].messages) = 1
  /\ HasFailures(heap[1].key) = RetBool(FALSE)
  /\ GetMessages(heap[1].key) = RetMsgs(<<>>)
  /\ HasFailuresAny = RetBool(FALSE)

NewValidator ==
  /\ DOMAIN validations # {}
  /\ validations' = [k \in {} |-> 0]
  /\ cur' = NoRef
  /\ expr' = [NoExpr EXCEPT !.calls = expr.calls, !.last = "constructed"]
  /\ UNCHANGED <<obj, heap, req>>

NextSource ==
  \/ Validate
  \/ ValidateAll
  \/ IsInt
  \/ IsGreaterThan
  \/ HasLength
  \/ Optional
  \/ ToInt
  \/ NewValidator

SpecSource == Init /\ [][NextSource]_vars

\* C37: no operation of a session changes the object to validate: every key
\* keeps its value over validate and validateAll with or without trim, the
\* predicates, toInt, optional and the construction of another session; and
\* a Validation created at any time, in the first session or in a later one
\* over the same object, starts from the object's value for the key,
\* trimmed if trimming was asked for.
SourceIsNeverModified ==
  [][/\ obj' = obj
     /\ Len(heap') = Len(heap) + 1 =>
          LET v == heap'[Len(heap')]
              raw == IF HasOwnProperty(obj, v.key) THEN Get(obj, v.key)
                     ELSE Undefined
          IN \/ v.value = raw
             \/ TypeOf(raw) = "string" /\ v.value = Str(Trim(raw.s))]_vars

\* C37 witness: the first session validated "foo" with trimming and converted
\* it with toInt to 19; a second session over the same object then validated
\* "foo" without trimming and reads the string with its blanks, which the
\* object still holds
SecondSessionSeesOriginal ==
  /\ Len(heap) = 2
  /\ heap[1].key = "foo"
  /\ heap[2].key = "foo"
  /\ heap[1].value = Num(19)
  /\ DOMAIN validations = {"foo"}
  /\ validations["foo"] = 2
  /\ expr.calls = 1
  /\ expr.ops = <<>>
  /\ HasOwnProperty(obj, "foo")
  /\ Get(obj, "foo") = Str(<<" ", "1", "9", " ">>)
  /\ GetValue("foo") = RetValue(Str(<<" ", "1", "9", " ">>))

====
